---- MODULE Spec2Model ----
(***************************************************************************)
(* Model of the InfluxDB MCP HTTP gateway: the Express pipeline of         *)
(* src/http-server.js (CORS middleware, the /mcp route, the JSON-RPC       *)
(* message handler) and the HttpTransport class of                         *)
(* src/utils/httpTransport.js (session detection, POST/GET handling,       *)
(* buffered and SSE responses, the SSE notification stream).               *)
(***************************************************************************)
EXTENDS Integers, Sequences, FiniteSets, TLC

(***************************************************************************)
(* JavaScript values.  Every value is a record [t, s]: t is what `typeof`  *)
(* distinguishes (with null and arrays kept apart), s is the payload text. *)
(***************************************************************************)
Undef == [t |-> "undefined", s |-> ""]

Null == [t |-> "null", s |-> ""]

Str(x) == [t |-> "string", s |-> x]

Num(x) == [t |-> "number", s |-> x]

\* JavaScript truthiness, as used by `if (message.method)`, `a || b`, `!message`.
Truthy(v) ==
    /\ v.t \notin {"undefined", "null"}
    /\ ~(v.t = "string" /\ v.s = "")
    /\ ~(v.t = "number" /\ v.s = "0")

\* String(v), as a template literal `${v}` renders it.
JsString(v) ==
    IF v.t = "undefined" THEN "undefined"
    ELSE IF v.t = "null" THEN "null"
    ELSE v.s

\* a || b
OrElse(a, b) == IF Truthy(a) THEN a ELSE b

\* Texts are sequences of fragments; Includes is String.prototype.includes
\* for a fragment-aligned needle.
Includes(text, needle) == \E i \in 1..Len(text) : text[i] = needle

\* String.prototype.startsWith for a fragment-aligned prefix.
StartsWith(text, prefix) == Len(text) >= 1 /\ text[1] = prefix

RangeOf(f) == {f[i] : i \in DOMAIN f}

(***************************************************************************)
(* JSON-RPC envelopes.  A field whose value is undefined is the same as an *)
(* omitted field once the envelope is serialised with JSON.stringify.      *)
(***************************************************************************)
NoResult == [t |-> "undefined", of |-> "", names |-> <<>>, val |-> ""]

NoError == [t |-> "undefined", code |-> 0, message |-> <<>>, data |-> <<>>]

\* result: {...} built by the dispatcher itself or returned by a handler.
Result(of, names, val) == [t |-> "object", of |-> of, names |-> names, val |-> val]

\* error: { code, message } (data omitted)
Err(code, message) ==
    [t |-> "object", code |-> code, message |-> message, data |-> <<>>]

\* error: { code, message, data }
ErrData(code, message, data) ==
    [t |-> "object", code |-> code, message |-> message, data |-> data]

Envelope(id, result, error) ==
    [jsonrpc |-> "2.0", id |-> id, result |-> result, error |-> error]

NoEnvelope == [jsonrpc |-> "", id |-> Undef, result |-> NoResult, error |-> NoError]

HasResult(env) == env.result.t # "undefined"

HasError(env) == env.error.t # "undefined"

(***************************************************************************)
(* The capability tables of http-server.js.                                *)
(***************************************************************************)
\* a tools/list literal that lacks one of the registered tools
ToolsListed_partial ==
    << "write-data", "query-data", "create-bucket",
       "list-databases", "health-check", "get-measurements",
       "get-measurement-schema", "get-bucket-info", "get-tag-values" >>

\* result.tools of tools/list, in source order
ToolsListed ==
    << "write-data", "query-data", "create-bucket", "create-org",
       "list-databases", "health-check", "get-measurements",
       "get-measurement-schema", "get-bucket-info", "get-tag-values" >>

\* the case labels of the tools/call switch, with the function each calls
ToolHandler ==
    [ n \in { "write-data", "query-data", "create-bucket", "create-org",
              "list-databases", "health-check", "get-measurements",
              "get-measurement-schema", "get-bucket-info", "get-tag-values" } |->
        CASE n = "write-data" -> "writeData"
          [] n = "query-data" -> "queryData"
          [] n = "create-bucket" -> "createBucket"
          [] n = "create-org" -> "createOrg"
          [] n = "list-databases" -> "listDatabases"
          [] n = "health-check" -> "healthCheck"
          [] n = "get-measurements" -> "getMeasurements"
          [] n = "get-measurement-schema" -> "getMeasurementSchema"
          [] n = "get-bucket-info" -> "getBucketInfo"
          [] n = "get-tag-values" -> "getTagValues" ]

\* server.tool(...) registrations with the McpServer instance
RegisteredTools == {"write-data", "query-data", "create-bucket", "create-org"}

\* result.resources of resources/list (uris), in source order
ResourcesListed == << "influxdb://orgs", "influxdb://buckets" >>

\* the uri comparisons of resources/read, with the function each calls
ResourceHandler ==
    [ u \in {"influxdb://orgs", "influxdb://buckets"} |->
        IF u = "influxdb://orgs" THEN "listOrganizations" ELSE "listBuckets" ]

\* result.prompts of prompts/list, in source order
PromptsListed == << "flux-query-examples", "line-protocol-guide" >>

\* a prompts/get that knows only the first of the prompts
PromptHandler_first == [ n \in {"flux-query-examples"} |-> "fluxQueryExamplesPrompt" ]

\* the name comparisons of prompts/get, with the function each calls
PromptHandler ==
    [ n \in {"flux-query-examples", "line-protocol-guide"} |->
        IF n = "flux-query-examples" THEN "fluxQueryExamplesPrompt"
        ELSE "lineProtocolGuidePrompt" ]

\* `params` is undefined or an object; of an object only name and uri are read
NoParams == [t |-> "undefined", name |-> Undef, uri |-> Undef]

Params(name, uri) == [t |-> "object", name |-> name, uri |-> uri]

(***************************************************************************)
(* httpTransport.messageHandler, branch by branch.  A branch either        *)
(* returns an envelope at once or awaits one handler function.             *)
(***************************************************************************)
Return(env) == [k |-> "return", env |-> env, handler |-> ""]

Await(handler) == [k |-> "await", env |-> NoEnvelope, handler |-> handler]

\* an awaited handler resolves with a value or rejects with an Error
Resolved(val) == [k |-> "value", val |-> val, msg |-> <<>>]

Rejected(msg) == [k |-> "throw", val |-> "", msg |-> msg]

initializeReply(m) == Envelope(m.id, Result("initialize", <<>>, ""), NoError)

\* a tools/list whose answer depends on the request: only the four tools
\* registered with server.tool for one id, the whole literal for the others
toolsListReply_byId(m) ==
    IF m.id = Str("a")
    THEN Envelope(m.id, Result("tools", SubSeq(ToolsListed, 1, 4), ""), NoError)
    ELSE Envelope(m.id, Result("tools", ToolsListed, ""), NoError)

toolsListReply(m) == Envelope(m.id, Result("tools", ToolsListed, ""), NoError)

resourcesListReply(m) ==
    Envelope(m.id, Result("resources", ResourcesListed, ""), NoError)

promptsListReply(m) == Envelope(m.id, Result("prompts", PromptsListed, ""), NoError)

pingReply(m) == Envelope(m.id, Result("empty", <<>>, ""), NoError)

\* the final `return` of the handler: no branch matched message.method
unknownMethodReply(m) ==
    Envelope(m.id, NoResult, Err(-32601, <<"Method not found: ", JsString(m.method)>>))

\* outerCatch answering with `id: null` instead of the request's id
outerCatch_nullId(m) == Envelope(Null, NoResult, Err(-32603, <<"Internal error">>))

\* the outer catch: anything thrown outside the three inner try blocks
outerCatch(m) == Envelope(m.id, NoResult, Err(-32603, <<"Internal error">>))

\* toolsCallCatch answering with the fixed text of the outer catch
toolsCallCatch_generic(m, msg) == Envelope(m.id, NoResult, Err(-32603, <<"Internal error">>))

\* the catch of the try inside tools/call
toolsCallCatch(m, msg) == Envelope(m.id, NoResult, Err(-32603, msg))

\* resourcesReadCatch leaving a result beside the error
resourcesReadCatch_both(m, msg) ==
    Envelope(m.id, Result("empty", <<>>, ""), Err(-32603, msg))

\* the catch of the try inside resources/read
resourcesReadCatch(m, msg) == Envelope(m.id, NoResult, Err(-32603, msg))

\* the catch of the try inside prompts/get
promptsGetCatch(m, msg) == Envelope(m.id, NoResult, Err(-32603, msg))

\* the catch of processRequest: taken only if messageHandler rejects, which
\* the handler's own outer catch prevents
processRequestCatch(m, msg) ==
    Envelope(m.id, NoResult, ErrData(-32603, <<"Internal error">>, msg))

\* return { jsonrpc, id, result } after the awaited handler resolved
invocationReply(m, handler, val) == Envelope(m.id, Result(handler, <<>>, val), NoError)

\* tools/call up to its first await.  Destructuring message.params throws a
\* TypeError when params is undefined, outside the inner try.
toolsCall(m) ==
    IF m.params.t = "undefined" THEN Return(outerCatch(m))
    ELSE IF m.params.name.t = "string" /\ m.params.name.s \in DOMAIN ToolHandler
         THEN Await(ToolHandler[m.params.name.s])
         ELSE Return(toolsCallCatch(m, <<"Unknown tool: ", JsString(m.params.name)>>))

resourcesRead(m) ==
    IF m.params.t = "undefined" THEN Return(outerCatch(m))
    ELSE IF m.params.uri.t = "string" /\ m.params.uri.s \in DOMAIN ResourceHandler
         THEN Await(ResourceHandler[m.params.uri.s])
         ELSE Return(resourcesReadCatch(m, <<"Unknown resource: ", JsString(m.params.uri)>>))

promptsGet(m) ==
    IF m.params.t = "undefined" THEN Return(outerCatch(m))
    ELSE IF m.params.name.t = "string" /\ m.params.name.s \in DOMAIN PromptHandler
         THEN Await(PromptHandler[m.params.name.s])
         ELSE Return(promptsGetCatch(m, <<"Unknown prompt: ", JsString(m.params.name)>>))

\* the chain comparing message.method without regard to case or to what
\* follows the method's name
messageHandler_loose(m) ==
    IF m.method = Str("initialize") THEN Return(initializeReply(m))
    ELSE IF m.method \in {Str("tools/list"), Str("tools/listing")} THEN Return(toolsListReply(m))
    ELSE IF m.method = Str("tools/call") THEN toolsCall(m)
    ELSE IF m.method = Str("resources/list") THEN Return(resourcesListReply(m))
    ELSE IF m.method = Str("resources/read") THEN resourcesRead(m)
    ELSE IF m.method = Str("prompts/list") THEN Return(promptsListReply(m))
    ELSE IF m.method = Str("prompts/get") THEN promptsGet(m)
    ELSE IF m.method \in {Str("ping"), Str("PING")} THEN Return(pingReply(m))
    ELSE Return(unknownMethodReply(m))

\* the chain of `if (message.method === ...)` tests, in source order
messageHandler(m) ==
    IF m.method = Str("initialize") THEN Return(initializeReply(m))
    ELSE IF m.method = Str("tools/list") THEN Return(toolsListReply(m))
    ELSE IF m.method = Str("tools/call") THEN toolsCall(m)
    ELSE IF m.method = Str("resources/list") THEN Return(resourcesListReply(m))
    ELSE IF m.method = Str("resources/read") THEN resourcesRead(m)
    ELSE IF m.method = Str("prompts/list") THEN Return(promptsListReply(m))
    ELSE IF m.method = Str("prompts/get") THEN promptsGet(m)
    ELSE IF m.method = Str("ping") THEN Return(pingReply(m))
    ELSE Return(unknownMethodReply(m))

\* the handler's continuation once the awaited function has settled
messageHandlerResume(m, handler, outcome) ==
    IF outcome.k = "value" THEN invocationReply(m, handler, outcome.val)
    ELSE IF m.method = Str("tools/call") THEN toolsCallCatch(m, outcome.msg)
    ELSE IF m.method = Str("resources/read") THEN resourcesReadCatch(m, outcome.msg)
    ELSE promptsGetCatch(m, outcome.msg)

(***************************************************************************)
(* HTTP requests and responses.                                            *)
(***************************************************************************)
\* the fields of a JSON-RPC message that the gateway reads
Message(jsonrpc, id, method, params) ==
    [jsonrpc |-> jsonrpc, id |-> id, method |-> method, params |-> params]

\* what reading any field of a non-message value (an array, {}) yields
NoMessage == Message(Undef, Undef, Undef, NoParams)

\* req.body: t is the kind of value, parsed the kind JSON.parse yields for a
\* string body ("invalid" when it throws), msg the object's fields
Body(t, parsed, msg) == [t |-> t, parsed |-> parsed, msg |-> msg]

Request(httpMethod, origin, accept, sessionHdr, sessionQry, versionHdr, versionQry, body) ==
    [ httpMethod |-> httpMethod, origin |-> origin, accept |-> accept,
      sessionHdr |-> sessionHdr, sessionQry |-> sessionQry,
      versionHdr |-> versionHdr, versionQry |-> versionQry, body |-> body ]

NoRequest ==
    Request("", <<>>, <<>>, Undef, Undef, Undef, Undef, Body("undefined", "", NoMessage))

\* an HTTP response: status 0 means nothing has been written; lines are the
\* lines of an event stream written with res.write, in order; ended: the
\* response is complete (res.json, res.end)
Response(status, ctype, kind, env, message, sseId, allowMethods) ==
    [ status |-> status, ctype |-> ctype, kind |-> kind, env |-> env,
      message |-> message, sseId |-> sseId, allowMethods |-> allowMethods,
      lines |-> <<>>, ended |-> status # 0 ]

NoResponse == Response(0, "", "", NoEnvelope, <<>>, "", <<>>)

\* res.header('Access-Control-Allow-Methods', 'GET, POST, OPTIONS')
AllowMethods == << "GET", "POST", "OPTIONS" >>

(***************************************************************************)
(* Express pipeline in front of the transport: corsOptions.origin.         *)
(***************************************************************************)
allowedOrigins == { << "https://your-domain.com" >> }

\* TRUE: callback(null, true); FALSE: callback(new Error('Not allowed by CORS'))
corsOrigin(origin) ==
    IF origin = <<>> THEN TRUE
    ELSE IF StartsWith(origin, "http://localhost:") \/ StartsWith(origin, "http://127.0.0.1:")
         THEN TRUE
         ELSE origin \in allowedOrigins

\* The cors middleware passes the callback's Error to next(err); no route runs
\* and Express's default error handler answers.  The Error carries no status,
\* so the answer is 500.
corsRejection == Response(500, "text/html", "expressError", NoEnvelope, <<"Not allowed by CORS">>, "", <<>>)

\* With preflightContinue unset the cors middleware answers an OPTIONS request
\* of an allowed origin itself (optionsSuccessStatus) and no route runs.
corsPreflight == Response(204, "", "none", NoEnvelope, <<>>, "", <<"GET", "HEAD", "PUT", "PATCH", "POST", "DELETE">>)

(***************************************************************************)
(* HttpTransport (utils/httpTransport.js).                                 *)
(***************************************************************************)
DefaultProtocolVersion == Str("2024-11-05")

detectProtocolVersion(req) ==
    OrElse(req.versionHdr, OrElse(req.versionQry, DefaultProtocolVersion))

\* generated is the value generateSessionId() returns when it is called
detectSession(req, generated) ==
    OrElse(req.sessionHdr, OrElse(req.sessionQry, generated))

\* isAllowedOrigin: defined by the class, called from nowhere
isAllowedOrigin(origin) == TRUE

shouldStream(method) == method \in {Str("query-data"), Str("write-data")}

\* const acceptHeader = req.headers.accept || '*/*'; acceptHeader.includes(...)
supportsSSE(req) ==
    Includes(IF req.accept = <<>> THEN << "*/*" >> ELSE req.accept, "text/event-stream")

\* sendErrorResponse putting error.stack, not error.message, in the body
sendErrorResponse_stack(message, statusCode) ==
    Response(statusCode, "application/json", "errorBody", NoEnvelope,
             message \o << "    at HttpTransport.processRequest" >>, "", AllowMethods)

\* { error: { message: error.message, type: error.name, code: statusCode }, success: false }
sendErrorResponse(message, statusCode) ==
    Response(statusCode, "application/json", "errorBody", NoEnvelope, message, "", AllowMethods)

\* sendSSEResponse writing the envelope and leaving the stream open
sendSSEResponse_open(response, requestId) ==
    [ Response(200, "text/event-stream", "sseEnvelope", response, <<>>, JsString(requestId),
               AllowMethods)
        EXCEPT !.lines = << "id", "data" >>, !.ended = FALSE ]

\* writeHead; res.write(`id: ${requestId}\n`); res.write(`data: ${eventData}\n\n`); res.end()
sendSSEResponse(response, requestId) ==
    [ Response(200, "text/event-stream", "sseEnvelope", response, <<>>, JsString(requestId),
               AllowMethods)
        EXCEPT !.lines = << "id", "data" >> ]

\* a streaming decision that also looks at the request id
sendResponse_byId(response, sse, method, requestId) ==
    IF sse /\ shouldStream(method) /\ requestId.t = "string"
    THEN sendSSEResponse(response, requestId)
    ELSE Response(200, "application/json", "envelope", response, <<>>, "", AllowMethods)

sendResponse(response, sse, method, requestId) ==
    IF sse /\ shouldStream(method)
    THEN sendSSEResponse(response, requestId)
    ELSE Response(200, "application/json", "envelope", response, <<>>, "", AllowMethods)

\* res.status(200).json({ success: true })
notificationAck == Response(200, "application/json", "success", NoEnvelope, <<>>, "", AllowMethods)

\* res.status(200).json({ received: true })
receivedAck == Response(200, "application/json", "received", NoEnvelope, <<>>, "", AllowMethods)

\* the final else of handleRequest answering like the info document
methodNotAllowed_ok ==
    Response(200, "application/json", "info", NoEnvelope, <<>>, "", AllowMethods)

\* res.status(405).json({ error: 'Method not allowed' })
methodNotAllowed ==
    Response(405, "application/json", "methodNotAllowed", NoEnvelope, <<"Method not allowed">>, "", AllowMethods)

\* res.status(200).end() of the OPTIONS branch of handleRequest
optionsReply == Response(200, "", "none", NoEnvelope, <<>>, "", AllowMethods)

\* res.json({...}) of handleGet without an SSE Accept header
serverInfo == Response(200, "application/json", "info", NoEnvelope, <<>>, "", AllowMethods)

\* handlePost, parsing: [ok, t, msg]; ok is FALSE when JSON.parse throws
parseBody(body) ==
    IF body.t = "string"
    THEN [ok |-> body.parsed # "invalid", t |-> body.parsed, msg |-> body.msg]
    ELSE [ok |-> TRUE, t |-> body.t, msg |-> body.msg]

\* !message || typeof message !== 'object' (typeof null and typeof [] are 'object';
\* of the values of these kinds only null is falsy among the 'object' ones)
invalidFormat(t) == t \notin {"object", "array"}

\* hasMethod as `message.method !== undefined`
hasMethod_defined(message) == message.method # Undef

\* if (message.method)
hasMethod(message) == Truthy(message.method)

\* afterProcessRequest without the `message.id !== undefined` test
afterProcessRequest_noIdTest(req, message, response) ==
    IF response # NoEnvelope
    THEN sendResponse(response, supportsSSE(req), message.method, message.id)
    ELSE notificationAck

\* afterProcessRequest writing nothing for a message without id
afterProcessRequest_silent(req, message, response) ==
    IF message.id # Undef /\ response # NoEnvelope
    THEN sendResponse(response, supportsSSE(req), message.method, message.id)
    ELSE NoResponse

\* handlePost once processRequest has produced `response` for `message`
afterProcessRequest(req, message, response) ==
    IF message.id # Undef /\ response # NoEnvelope
    THEN sendResponse(response, supportsSSE(req), message.method, message.id)
    ELSE notificationAck

(***************************************************************************)
(* Bounds and the inputs the environment draws from.                       *)
(***************************************************************************)
\* how many distinct values generateSessionId() can return
NumGenerated == 2

\* POST requests that may be awaiting their handler at the same time
MaxInFlight == 2

GeneratedNames == << "session_1_a", "session_2_b", "session_3_c", "session_4_d" >>

GeneratedIds == { Str(GeneratedNames[k]) : k \in 1..NumGenerated }

Slots == 1..MaxInFlight

\* SSE GET streams opened over the life of the transport
MaxStreams == 2

\* frames written to one stream
MaxFrames == 3

StreamIds == 1..MaxStreams

Ids == { Undef, Null, Num("0"), Str("a") }

Versions == { Str("2.0"), Str("1.0"), Undef }

Accepts ==
    { <<>>, << "application/json" >>, << "application/json", "text/event-stream" >> }

Origins ==
    { <<>>, << "http://localhost:", "3000" >>, << "http://127.0.0.1:", "8080" >>,
      << "https://your-domain.com" >>, << "https://evil.example" >>,
      << "http://localhost", ".evil.example" >> }

\* methods that take no capability name
PlainMethods ==
    { Undef, Str(""), Num("5"), Str("initialize"), Str("tools/list"),
      Str("resources/list"), Str("prompts/list"), Str("ping"),
      Str("query-data"), Str("write-data"), Str("PING"), Str("tools/cal"),
      Str("tools/listing"), Str("mcp/ping") }

ToolParams ==
    { NoParams, Params(Undef, Undef) }
      \cup { Params(Str(n), Undef) : n \in DOMAIN ToolHandler \cup RangeOf(ToolsListed) \cup {"does-not-exist", "Write-Data"} }

ResourceParams ==
    { NoParams, Params(Undef, Undef) }
      \cup { Params(Undef, Str(u)) : u \in DOMAIN ResourceHandler \cup RangeOf(ResourcesListed) \cup {"influxdb://nope"} }

PromptParams ==
    { NoParams, Params(Undef, Undef) }
      \cup { Params(Str(n), Undef) : n \in DOMAIN PromptHandler \cup RangeOf(PromptsListed) \cup {"no-such-prompt"} }

Messages ==
    { Message(v, i, m, NoParams) : v \in Versions, i \in Ids, m \in PlainMethods }
      \cup { Message(v, i, Str("tools/call"), p) : v \in Versions, i \in Ids, p \in ToolParams }
      \cup { Message(v, i, Str("resources/read"), p) : v \in Versions, i \in Ids, p \in ResourceParams }
      \cup { Message(v, i, Str("prompts/get"), p) : v \in Versions, i \in Ids, p \in PromptParams }

PingMessage == Message(Str("2.0"), Num("0"), Str("ping"), NoParams)

\* bodies that are not one JSON object
OddBodies ==
    { Body("string", "invalid", NoMessage), Body("string", "number", NoMessage),
      Body("string", "object", PingMessage), Body("string", "null", NoMessage),
      Body("null", "", NoMessage), Body("number", "", NoMessage),
      Body("boolean", "", NoMessage), Body("array", "", NoMessage),
      Body("undefined", "", NoMessage), Body("string", "array", NoMessage),
      Body("string", "string", NoMessage) }

PlainRequest(httpMethod, origin, accept, body) ==
    Request(httpMethod, origin, accept, Undef, Undef, Undef, Undef, body)

\* every origin with every HTTP method, one plain body
OriginRequests ==
    { PlainRequest(h, o, a, Body("object", "", PingMessage)) :
        h \in {"OPTIONS", "GET", "POST", "DELETE"}, o \in Origins, a \in Accepts }

\* every message and every odd body, POSTed without an Origin
PostRequests ==
    { PlainRequest("POST", <<>>, a, Body("object", "", m)) : a \in Accepts, m \in Messages }
      \cup { PlainRequest("POST", <<>>, a, b) : a \in Accepts, b \in OddBodies }

\* every way of naming a session and a protocol version
SessionRequests ==
    { Request(h, <<>>, <<>>, sh, sq, vh, vq, Body("object", "", PingMessage)) :
        h \in {"GET", "POST"},
        sh \in {Undef, Str("hdr-session")}, sq \in {Undef, Str("qry-session")},
        vh \in {Undef, Str("2025-03-26")}, vq \in {Undef, Str("2025-06-18")} }

Requests == OriginRequests \cup PostRequests \cup SessionRequests

\* What an awaited handler can do.  listOrganizations is called without its
\* uri argument and reads uri.href on each of its paths, its catch included.
HandlerOutcomes(handler) ==
    IF handler = "listOrganizations"
    THEN { Rejected(<< "Cannot read properties of undefined (reading 'href')" >>) }
    ELSE { Resolved("ok"), Resolved("isError"), Rejected(<< "upstream unavailable" >>) }

Handlers == RangeOf(ToolHandler) \cup RangeOf(ResourceHandler) \cup RangeOf(PromptHandler)

Outcomes == UNION { HandlerOutcomes(h) : h \in Handlers }

(***************************************************************************)
(* State.                                                                  *)
(***************************************************************************)
VARIABLES
    sessionId,          \* this.sessionId
    protocolVersion,    \* this.protocolVersion
    hasMessageHandler,  \* this.messageHandler is set
    responseStream,     \* this.responseStream: 0 for null, else the stream it refers to
    streams,            \* the SSE responses opened by GET requests
    pending,            \* POST requests suspended in `await handler(args)`
    last,               \* the HTTP exchange just completed, until the client has read it
    listed              \* history: what the list methods have returned so far

vars ==
    << sessionId, protocolVersion, hasMessageHandler, responseStream, streams, pending, last,
       listed >>

sse == << responseStream, streams >>

transport == << sessionId, protocolVersion, hasMessageHandler >>

\* an SSE response of a GET request: state is "free" (not opened), "open" or
\* "gone" (the client has disconnected); timer: its keepAlive interval is
\* set; ended: res.end() has been called; frames: what has been written to
\* it; late: a write was attempted after end() or after the client left;
\* head: the status line and Content-Type written by res.writeHead; req: the
\* GET request the response belongs to
NoHead == [status |-> 0, ctype |-> ""]

Stream(state, timer, ended, frames, late) ==
    [ state |-> state, timer |-> timer, ended |-> ended, frames |-> frames, late |-> late,
      head |-> NoHead, req |-> NoRequest ]

NoStream == Stream("free", FALSE, FALSE, <<>>, FALSE)

NoPending == [req |-> NoRequest, handler |-> ""]

\* One HTTP exchange: the request, the response written, whether the session
\* negotiator and the message handler ran, the envelope the message handler
\* returned, the handler functions it called and the message of the Error a
\* handler function threw (<<>> when none did).
Exchange(req, res, negotiated, dispatched, returned, invoked, thrown) ==
    [ req |-> req, res |-> res, negotiated |-> negotiated, dispatched |-> dispatched,
      returned |-> returned, invoked |-> invoked, thrown |-> thrown ]

NoExchange == Exchange(NoRequest, NoResponse, FALSE, FALSE, NoEnvelope, <<>>, <<>>)

\* the client of this specification sends its next request once it has read
\* the response to the previous one
Idle == last = NoExchange /\ \A i \in Slots : pending[i] = NoPending

\* no list method has been answered yet: per kind the names first returned,
\* and the outcomes of the handler calls settled since tools/list was first
\* answered
NothingListed == [tools |-> <<>>, resources |-> <<>>, prompts |-> <<>>, settled |-> {}]

\* constructor, then `httpTransport.messageHandler = async (message) => ...`
Init ==
    /\ sessionId = Null
    /\ protocolVersion = Undef
    /\ hasMessageHandler = TRUE
    /\ responseStream = 0
    /\ streams = [s \in StreamIds |-> NoStream]
    /\ pending = [i \in Slots |-> NoPending]
    /\ last = NoExchange
    /\ listed = NothingListed

\* handleRequest, lines 28-30: both fields are assigned on every request
Negotiate(req) ==
    /\ protocolVersion' = detectProtocolVersion(req)
    /\ \E g \in GeneratedIds \ {sessionId} : sessionId' = detectSession(req, g)
    /\ UNCHANGED hasMessageHandler

\* handlePost over a processRequest without its `if (!this.messageHandler)`
\* test: the call of the unset handler throws inside its try block
handlePost_unguarded(req, installed) ==
    LET parsed == parseBody(req.body)
        message == parsed.msg
        Finish(res, dispatched, returned) ==
            [k |-> "respond", res |-> res, dispatched |-> dispatched,
             returned |-> returned, handler |-> ""]
    IN  IF ~parsed.ok
        THEN Finish(sendErrorResponse(<< "Invalid JSON" >>, 400), FALSE, NoEnvelope)
        ELSE IF invalidFormat(parsed.t)
        THEN Finish(sendErrorResponse(<< "Invalid message format" >>, 400), FALSE, NoEnvelope)
        ELSE IF hasMethod(message)
        THEN IF ~installed
             THEN LET caught == processRequestCatch(message, << "this.messageHandler is not a function" >>)
                  IN  Finish(afterProcessRequest(req, message, caught), FALSE, caught)
             ELSE LET step == messageHandler(message)
                  IN  IF step.k = "return"
                      THEN Finish(afterProcessRequest(req, message, step.env), TRUE, step.env)
                      ELSE [k |-> "await", res |-> NoResponse, dispatched |-> TRUE,
                            returned |-> NoEnvelope, handler |-> step.handler]
        ELSE Finish(receivedAck, FALSE, NoEnvelope)

\* handlePost up to its response or to the await of a handler function
handlePost(req, installed) ==
    LET parsed == parseBody(req.body)
        message == parsed.msg
        Finish(res, dispatched, returned) ==
            [k |-> "respond", res |-> res, dispatched |-> dispatched,
             returned |-> returned, handler |-> ""]
    IN  IF ~parsed.ok
        THEN Finish(sendErrorResponse(<< "Invalid JSON" >>, 400), FALSE, NoEnvelope)
        ELSE IF invalidFormat(parsed.t)
        THEN Finish(sendErrorResponse(<< "Invalid message format" >>, 400), FALSE, NoEnvelope)
        ELSE IF hasMethod(message)
        THEN IF ~installed
             THEN Finish(sendErrorResponse(<< "No message handler configured" >>, 500),
                         FALSE, NoEnvelope)
             ELSE LET step == messageHandler(message)
                  IN  IF step.k = "return"
                      THEN Finish(afterProcessRequest(req, message, step.env), TRUE, step.env)
                      ELSE [k |-> "await", res |-> NoResponse, dispatched |-> TRUE,
                            returned |-> NoEnvelope, handler |-> step.handler]
        ELSE Finish(receivedAck, FALSE, NoEnvelope)

(***************************************************************************)
(* Actions: one per way a request travels through app.all('/mcp').         *)
(***************************************************************************)
\* the cors middleware refuses the Origin: no route handler runs
CorsRejected(req) ==
    /\ Idle
    /\ ~corsOrigin(req.origin)
    /\ last' = Exchange(req, corsRejection, FALSE, FALSE, NoEnvelope, <<>>, <<>>)
    /\ UNCHANGED << transport, sse, pending >>
    /\ UNCHANGED listed

\* the cors middleware answers the preflight of an accepted Origin
CorsPreflight(req) ==
    /\ Idle
    /\ corsOrigin(req.origin)
    /\ req.httpMethod = "OPTIONS"
    /\ last' = Exchange(req, corsPreflight, FALSE, FALSE, NoEnvelope, <<>>, <<>>)
    /\ UNCHANGED << transport, sse, pending >>
    /\ UNCHANGED listed

\* handleRequest, the final else: neither OPTIONS, POST nor GET
OtherMethod(req) ==
    /\ Idle
    /\ corsOrigin(req.origin)
    /\ req.httpMethod \notin {"OPTIONS", "POST", "GET"}
    /\ Negotiate(req)
    /\ last' = Exchange(req, methodNotAllowed, TRUE, FALSE, NoEnvelope, <<>>, <<>>)
    /\ UNCHANGED << sse, pending >>
    /\ UNCHANGED listed

\* handleRequest -> handleGet without text/event-stream in Accept
GetInfo(req) ==
    /\ Idle
    /\ corsOrigin(req.origin)
    /\ req.httpMethod = "GET"
    /\ ~Includes(req.accept, "text/event-stream")
    /\ Negotiate(req)
    /\ last' = Exchange(req, serverInfo, TRUE, FALSE, NoEnvelope, <<>>, <<>>)
    /\ UNCHANGED << sse, pending >>
    /\ UNCHANGED listed

\* handleRequest -> handlePost
PostStep(req) ==
    /\ Idle
    /\ corsOrigin(req.origin)
    /\ req.httpMethod = "POST"
    /\ Negotiate(req)
    /\ LET out == handlePost(req, hasMessageHandler)
       IN  IF out.k = "respond"
           THEN /\ last' = Exchange(req, out.res, TRUE, out.dispatched, out.returned, <<>>, <<>>)
                /\ UNCHANGED pending
           ELSE /\ pending' = [pending EXCEPT ![1] = [req |-> req, handler |-> out.handler]]
                /\ UNCHANGED last
    /\ UNCHANGED sse

Post(req) == PostStep(req) /\ UNCHANGED listed

\* a dispatcher that calls the handler function a second time when it threw,
\* and answers with what the second call returned
HandlerSettlesStep_retry(i, outcome) ==
    /\ pending[i] # NoPending
    /\ outcome \in HandlerOutcomes(pending[i].handler)
    /\ LET req == pending[i].req
           message == parseBody(req.body).msg
           env == invocationReply(message, pending[i].handler, "ok")
           once == messageHandlerResume(message, pending[i].handler, outcome)
       IN  last' = IF outcome.k = "throw"
                   THEN Exchange(req, afterProcessRequest(req, message, env), TRUE, TRUE, env,
                                 << pending[i].handler, pending[i].handler >>, outcome.msg)
                   ELSE Exchange(req, afterProcessRequest(req, message, once), TRUE, TRUE, once,
                                 << pending[i].handler >>, outcome.msg)
    /\ pending' = [pending EXCEPT ![i] = NoPending]
    /\ UNCHANGED << transport, sse >>

\* a transport that keeps the message being served in a field shared by all
\* requests: a resuming POST builds its envelope from the message of the
\* POST that arrived last
HandlerSettlesStep_sharedMessage(i, outcome) ==
    /\ pending[i] # NoPending
    /\ outcome \in HandlerOutcomes(pending[i].handler)
    /\ LET req == pending[i].req
           newest == CHOOSE j \in Slots :
                        pending[j] # NoPending /\ \A k \in Slots : k > j => pending[k] = NoPending
           message == parseBody(pending[newest].req.body).msg
           env == messageHandlerResume(message, pending[i].handler, outcome)
       IN  last' = Exchange(req, afterProcessRequest(req, message, env), TRUE, TRUE, env,
                             << pending[i].handler >>, outcome.msg)
    /\ pending' = [pending EXCEPT ![i] = NoPending]
    /\ UNCHANGED << transport, sse >>

\* the awaited handler settles; messageHandler, processRequest and handlePost resume
HandlerSettlesStep(i, outcome) ==
    /\ pending[i] # NoPending
    /\ outcome \in HandlerOutcomes(pending[i].handler)
    /\ LET req == pending[i].req
           message == parseBody(req.body).msg
           env == messageHandlerResume(message, pending[i].handler, outcome)
       IN  last' = Exchange(req, afterProcessRequest(req, message, env), TRUE, TRUE, env,
                             << pending[i].handler >>, outcome.msg)
    /\ pending' = [pending EXCEPT ![i] = NoPending]
    /\ UNCHANGED << transport, sse >>

HandlerSettles(i, outcome) == HandlerSettlesStep(i, outcome) /\ UNCHANGED listed

\* the client reads the response
Delivered ==
    /\ last # NoExchange
    /\ last' = NoExchange
    /\ UNCHANGED << transport, sse, pending >>
    /\ UNCHANGED listed

Next ==
    \/ \E req \in Requests : CorsRejected(req)
    \/ \E req \in Requests : CorsPreflight(req)
    \/ \E req \in Requests : OtherMethod(req)
    \/ \E req \in Requests : GetInfo(req)
    \/ \E req \in Requests : Post(req)
    \/ \E i \in Slots : \E o \in Outcomes : HandlerSettles(i, o)
    \/ Delivered

Spec == Init /\ [][Next]_vars

(***************************************************************************)
(* The server variant that assigns its callback to the `onMessage`         *)
(* property (`httpTransport.onMessage = async (message) => ...`): the      *)
(* transport's messageHandler field stays unset, processRequest throws.    *)
(***************************************************************************)
InitUnset ==
    /\ sessionId = Null
    /\ protocolVersion = Undef
    /\ hasMessageHandler = FALSE
    /\ responseStream = 0
    /\ streams = [s \in StreamIds |-> NoStream]
    /\ pending = [i \in Slots |-> NoPending]
    /\ last = NoExchange
    /\ listed = NothingListed

NextUnset ==
    \/ \E req \in Requests : CorsRejected(req)
    \/ \E req \in Requests : CorsPreflight(req)
    \/ \E req \in Requests : OtherMethod(req)
    \/ \E req \in Requests : GetInfo(req)
    \/ \E req \in Requests : Post(req)
    \/ Delivered

SpecUnset == InitUnset /\ [][NextUnset]_vars

\* either server: the one that installs messageHandler or the one that does not
InitAny ==
    /\ sessionId = Null
    /\ protocolVersion = Undef
    /\ hasMessageHandler \in BOOLEAN
    /\ responseStream = 0
    /\ streams = [s \in StreamIds |-> NoStream]
    /\ pending = [i \in Slots |-> NoPending]
    /\ last = NoExchange
    /\ listed = NothingListed

SpecAny == InitAny /\ [][Next]_vars

(***************************************************************************)
(* The list methods among other requests, with the history of what they    *)
(* returned.                                                               *)
(***************************************************************************)
ListMethods == { Str("tools/list"), Str("resources/list"), Str("prompts/list") }

ListingMessages ==
    { Message(Str("2.0"), i, m, NoParams) : i \in {Num("0"), Str("a")}, m \in ListMethods }
      \cup { Message(Str("2.0"), Num("0"), Str("tools/call"), Params(Str(n), Undef)) :
                n \in {"write-data", "does-not-exist"} }
      \cup { Message(Str("2.0"), Num("0"), Str("resources/read"), Params(Undef, Str("influxdb://orgs"))),
             PingMessage }

ListingRequests ==
    { PlainRequest("POST", <<>>, <<>>, Body("object", "", m)) : m \in ListingMessages }

\* the history once exchange ex is complete: the names a list method
\* returned are kept the first time its kind is answered
Noted(history, ex) ==
    LET kind == ex.res.env.result.of
    IN  IF ex # NoExchange /\ kind \in {"tools", "resources", "prompts"} /\ history[kind] = <<>>
        THEN [history EXCEPT ![kind] = ex.res.env.result.names]
        ELSE history

PostListed(req) == PostStep(req) /\ listed' = Noted(listed, last')

SettlesListed(i, outcome) ==
    /\ HandlerSettlesStep(i, outcome)
    /\ listed' = [listed EXCEPT !.settled = IF listed.tools # <<>> THEN @ \cup {outcome.k} ELSE @]

NextLists ==
    \/ \E req \in ListingRequests : PostListed(req)
    \/ \E i \in Slots : \E o \in Outcomes : SettlesListed(i, o)
    \/ Delivered

SpecLists == Init /\ [][NextLists]_vars

(***************************************************************************)
(* The SSE notification stream: GET with Accept: text/event-stream,        *)
(* startSSEConnection, its keepAlive interval and 'close' listener,        *)
(* send() and close().                                                     *)
(***************************************************************************)
Frame(type, sid, version) == [type |-> type, sessionId |-> sid, protocolVersion |-> version]

\* res.writeHead(200, { 'Content-Type': 'text/event-stream', ... })
sseHead == [status |-> 200, ctype |-> "text/event-stream"]

\* startSSEConnection opening the stream with a heartbeat comment
connectionFrame_comment(sid, version) == Frame("heartbeat", Undef, Undef)

\* data: {"type":"connection","sessionId":...,"protocolVersion":...}
connectionFrame(sid, version) == Frame("connection", sid, version)

\* ': heartbeat'
heartbeatFrame == Frame("heartbeat", Undef, Undef)

\* data: <message> written by send()
messageFrame == Frame("message", Undef, Undef)

\* res.write(frame): nothing reaches a response that has ended or whose
\* client has left; the attempt is recorded
write(stream, frame) ==
    IF stream.ended \/ stream.state # "open"
    THEN [stream EXCEPT !.late = TRUE]
    ELSE [stream EXCEPT !.frames = Append(@, frame)]

SseRequests ==
    { Request("GET", <<>>, << "text/event-stream" >>, sh, Undef, vh, Undef,
              Body("undefined", "", NoMessage)) :
        sh \in {Undef, Str("hdr-session")}, vh \in {Undef, Str("2025-03-26")} }

\* the stream a new SSE response becomes: the first that is not yet in use
FreeStream == CHOOSE s \in StreamIds : streams[s].state = "free" /\ \A r \in 1..(s - 1) : streams[r].state # "free"

\* startSSEConnection reporting the session fields as they were before this
\* request was inspected
OpenStream_stale(req) ==
    /\ corsOrigin(req.origin)
    /\ req.httpMethod = "GET"
    /\ Includes(req.accept, "text/event-stream")
    /\ \E s \in StreamIds : streams[s].state = "free"
    /\ Negotiate(req)
    /\ streams' = [streams EXCEPT ![FreeStream] =
            [ Stream("open", TRUE, FALSE, << connectionFrame(sessionId, protocolVersion) >>, FALSE)
                EXCEPT !.head = sseHead, !.req = req ]]
    /\ responseStream' = FreeStream
    /\ UNCHANGED << pending, last >>
    /\ UNCHANGED listed

\* handleRequest -> handleGet -> startSSEConnection
OpenStream(req) ==
    /\ corsOrigin(req.origin)
    /\ req.httpMethod = "GET"
    /\ Includes(req.accept, "text/event-stream")
    /\ \E s \in StreamIds : streams[s].state = "free"
    /\ Negotiate(req)
    /\ streams' = [streams EXCEPT ![FreeStream] =
            [ Stream("open", TRUE, FALSE, << connectionFrame(sessionId', protocolVersion') >>, FALSE)
                EXCEPT !.head = sseHead, !.req = req ]]
    /\ responseStream' = FreeStream
    /\ UNCHANGED << pending, last >>
    /\ UNCHANGED listed

\* the keepAlive interval of stream s fires
Heartbeat(s) ==
    /\ streams[s].timer
    /\ Len(streams[s].frames) < MaxFrames
    /\ streams' = [streams EXCEPT ![s] = write(@, heartbeatFrame)]
    /\ UNCHANGED << transport, responseStream, pending, last >>
    /\ UNCHANGED listed

\* the 'close' listener without its clearInterval(keepAlive)
ClientDisconnects_keepTimer(s) ==
    /\ streams[s].state = "open"
    /\ streams' = [streams EXCEPT ![s] = [@ EXCEPT !.state = "gone"]]
    /\ responseStream' = 0
    /\ UNCHANGED << transport, pending, last >>
    /\ UNCHANGED listed

\* req.on('close') of stream s: clearInterval(keepAlive); this.responseStream = null
ClientDisconnects(s) ==
    /\ streams[s].state = "open"
    /\ streams' = [streams EXCEPT ![s] = [@ EXCEPT !.state = "gone", !.timer = FALSE]]
    /\ responseStream' = 0
    /\ UNCHANGED << transport, pending, last >>
    /\ UNCHANGED listed

\* send(message)
Send ==
    /\ responseStream # 0
    /\ Len(streams[responseStream].frames) < MaxFrames
    /\ streams' = [streams EXCEPT ![responseStream] = write(@, messageFrame)]
    /\ UNCHANGED << transport, responseStream, pending, last >>
    /\ UNCHANGED listed

\* close()
Close ==
    /\ responseStream # 0
    /\ streams' = [streams EXCEPT ![responseStream] = [@ EXCEPT !.ended = TRUE]]
    /\ responseStream' = 0
    /\ UNCHANGED << transport, pending, last >>
    /\ UNCHANGED listed

NextSSE ==
    \/ \E req \in SseRequests : OpenStream(req)
    \/ \E s \in StreamIds : Heartbeat(s)
    \/ \E s \in StreamIds : ClientDisconnects(s)
    \/ Send
    \/ Close

SpecSSE == Init /\ [][NextSSE]_vars

(***************************************************************************)
(* Requests served concurrently: a POST suspended in `await handler(args)` *)
(* leaves the event loop to other POSTs and to GETs, which run up to their *)
(* own response or await; the transport object is shared by all of them.   *)
(***************************************************************************)
\* each message with the session header its client sends
ConcurrentPosts ==
    { << Undef, Message(Str("2.0"), Num("0"), Str("tools/call"), Params(Str("write-data"), Undef)) >>,
      << Str("hdr-session"),
         Message(Str("2.0"), Str("a"), Str("tools/call"), Params(Str("query-data"), Undef)) >>,
      << Undef, Message(Str("2.0"), Str("a"), Str("query-data"), NoParams) >>,
      << Str("hdr-session"), Message(Str("2.0"), Null, Str("write-data"), NoParams) >>,
      << Undef, PingMessage >> }

ConcurrentRequests ==
    { Request("POST", <<>>, a, p[1], Undef, Undef, Undef, Body("object", "", p[2])) :
        a \in { << "application/json" >>, << "application/json", "text/event-stream" >> },
        p \in ConcurrentPosts }
      \cup { Request("GET", <<>>, << "text/event-stream" >>, Undef, Undef, Undef, Undef,
                     Body("undefined", "", NoMessage)),
             Request("GET", <<>>, << "text/event-stream" >>, Undef, Str("qry-session"),
                     Str("2025-03-26"), Undef, Body("undefined", "", NoMessage)) }

\* the slot a newly suspended POST takes
FreeSlot == CHOOSE i \in Slots : pending[i] = NoPending /\ \A j \in 1..(i - 1) : pending[j] # NoPending

\* handleRequest -> handlePost while other POSTs are suspended
PostConcurrent(req) ==
    /\ last = NoExchange
    /\ \E i \in Slots : pending[i] = NoPending
    /\ corsOrigin(req.origin)
    /\ req.httpMethod = "POST"
    /\ Negotiate(req)
    /\ LET out == handlePost(req, hasMessageHandler)
       IN  IF out.k = "respond"
           THEN /\ last' = Exchange(req, out.res, TRUE, out.dispatched, out.returned, <<>>, <<>>)
                /\ UNCHANGED pending
           ELSE /\ pending' = [pending EXCEPT ![FreeSlot] = [req |-> req, handler |-> out.handler]]
                /\ UNCHANGED last
    /\ UNCHANGED << sse, listed >>

\* one of the suspended POSTs resumes, in any order
SettlesConcurrent(i, outcome) ==
    /\ last = NoExchange
    /\ HandlerSettlesStep(i, outcome)
    /\ UNCHANGED listed

NextConcurrent ==
    \/ \E req \in ConcurrentRequests : PostConcurrent(req)
    \/ \E i \in Slots : \E o \in Outcomes : SettlesConcurrent(i, o)
    \/ \E req \in ConcurrentRequests : OpenStream(req)
    \/ Delivered

SpecConcurrent == Init /\ [][NextConcurrent]_vars

(***************************************************************************)
(* Properties.  They are stated over `last`, the exchange just completed.  *)
(***************************************************************************)
LastMessage == parseBody(last.req.body).msg

\* the last exchange was a POST whose body reached the `if (message.method)` test
PostedMessage ==
    /\ last # NoExchange
    /\ last.req.httpMethod = "POST"
    /\ corsOrigin(last.req.origin)
    /\ parseBody(last.req.body).ok
    /\ ~invalidFormat(parseBody(last.req.body).t)

\* the response carries a JSON-RPC envelope, buffered or as an SSE event
CarriesEnvelope == last.res.kind \in {"envelope", "sseEnvelope"}

InvocationMethods == { Str("tools/call"), Str("resources/read"), Str("prompts/get") }

KnownMethods ==
    InvocationMethods \cup
      { Str("initialize"), Str("tools/list"), Str("resources/list"), Str("prompts/list"),
        Str("ping") }

\* the capability a tools/call, resources/read or prompts/get message asks for
RequestedName(m) == IF m.method = Str("resources/read") THEN m.params.uri ELSE m.params.name

\* the names the gateway advertises for the kind an invocation method addresses
Advertised(m) ==
    IF m.method = Str("tools/call") THEN RangeOf(ToolsListed)
    ELSE IF m.method = Str("resources/read") THEN RangeOf(ResourcesListed)
    ELSE RangeOf(PromptsListed)

\* an invocation with an id that names a capability that is not registered
UnknownCapabilityRequest ==
    /\ PostedMessage
    /\ LastMessage.method \in InvocationMethods
    /\ LastMessage.id # Undef
    /\ LastMessage.params.t = "object"
    /\ RequestedName(LastMessage).t = "string"
    /\ RequestedName(LastMessage).s \notin Advertised(LastMessage)

\* C1: an invocation that names an unregistered capability is answered with
\* an error envelope of code -32601 whose data contains the requested name.
C1_UnknownCapabilityIsMethodNotFound ==
    UnknownCapabilityRequest =>
        /\ CarriesEnvelope
        /\ HasError(last.res.env)
        /\ last.res.env.error.code = -32601
        /\ Includes(last.res.env.error.data, RequestedName(LastMessage).s)

\* a POSTed message with a method and no id
Notification == PostedMessage /\ Truthy(LastMessage.method) /\ LastMessage.id = Undef

C3_ResponseEchoesId ==
    (PostedMessage /\ LastMessage.method \in KnownMethods /\ LastMessage.id # Undef) =>
        /\ CarriesEnvelope
        /\ last.res.env.id = LastMessage.id
        /\ last.returned.id = LastMessage.id
        /\ last.res.kind = "sseEnvelope" => last.res.sseId = JsString(LastMessage.id)

\* a string id echoed on a failure path: tools/call without params
C3_Witness ==
    /\ PostedMessage
    /\ LastMessage.id = Str("a")
    /\ LastMessage.method = Str("tools/call")
    /\ LastMessage.params = NoParams
    /\ HasError(last.res.env)
    /\ last.res.env.id = Str("a")

\* the request of the step being taken, when the step is the arrival of a
\* request that reaches the session negotiator
ArrivingRequest == IF last' # NoExchange THEN last'.req ELSE pending'[1].req

NegotiatedArrival ==
    /\ Idle
    /\ \/ last' # NoExchange /\ last'.negotiated
       \/ pending'[1] # NoPending

NamesNoSession(req) ==
    /\ req.sessionHdr = Undef /\ req.sessionQry = Undef
    /\ req.versionHdr = Undef /\ req.versionQry = Undef

\* C4: once sessionId and protocolVersion are established, a request that
\* names neither leaves both unchanged.
C4_SessionHeldAcrossRequests ==
    [][ (sessionId # Null /\ NegotiatedArrival /\ NamesNoSession(ArrivingRequest))
            => (sessionId' = sessionId /\ protocolVersion' = protocolVersion) ]_vars

\* the last POST invoked the write-data or the query-data tool
InvokesLongRunningTool ==
    /\ LastMessage.method = Str("tools/call")
    /\ LastMessage.params.t = "object"
    /\ LastMessage.params.name \in { Str("write-data"), Str("query-data") }

\* C5: a POST answered with an envelope is answered as an SSE stream exactly
\* when its Accept header includes text/event-stream and it invokes the
\* write-data or query-data tool; otherwise as buffered JSON with status 200.
C5_StreamsIffLongRunningTool ==
    (PostedMessage /\ CarriesEnvelope) =>
        /\ last.res.ctype = "text/event-stream"
              <=> (supportsSSE(last.req) /\ InvokesLongRunningTool)
        /\ last.res.ctype # "text/event-stream"
              => (last.res.ctype = "application/json" /\ last.res.status = 200)

\* the envelope is well formed: jsonrpc "2.0" and a non-empty string method
WellFormed(m) == m.jsonrpc = Str("2.0") /\ m.method.t = "string" /\ m.method.s # ""

HandlerThrew == PostedMessage /\ last.thrown # <<>> /\ LastMessage.id # Undef

\* C8 as stated: when a handler throws, the response is an error envelope of
\* code -32603 whose data is the handler's error message.
C8_HandlerErrorInData ==
    HandlerThrew =>
        /\ HasError(last.res.env)
        /\ last.res.env.error.code = -32603
        /\ last.res.env.error.data = last.thrown

\* C8 as amended: when a handler throws, the response is an error envelope of
\* code -32603 whose message is the handler's error message; it has no data
\* and no result.
C8_HandlerErrorInMessage ==
    HandlerThrew =>
        /\ CarriesEnvelope
        /\ HasError(last.res.env)
        /\ ~HasResult(last.res.env)
        /\ last.res.env.error.code = -32603
        /\ last.res.env.error.message = last.thrown
        /\ last.res.env.error.data = <<>>

\* a tool threw and its message came back
C8_Witness ==
    /\ HandlerThrew
    /\ last.invoked = << "queryData" >>
    /\ last.res.env.error.message = << "upstream unavailable" >>

\* C9: an envelope produced for a request with an id has exactly one of
\* result and error.
C9_ExactlyOneOfResultAndError ==
    (last # NoExchange /\ CarriesEnvelope) =>
        /\ HasResult(last.res.env) # HasError(last.res.env)
        /\ last.res.env.jsonrpc = "2.0"
        /\ last.res.env = last.returned

\* a prompts/get sent without params, answered with an error and no result
C9_Witness ==
    /\ PostedMessage
    /\ CarriesEnvelope
    /\ LastMessage.method = Str("prompts/get")
    /\ LastMessage.params = NoParams
    /\ LastMessage.id = Num("0")
    /\ HasError(last.res.env)
    /\ ~HasResult(last.res.env)

\* C10: a request whose Origin is refused is answered with 403 and neither the
\* session negotiator nor the dispatcher runs.
C10_DisallowedOriginIs403 ==
    (last # NoExchange /\ ~corsOrigin(last.req.origin)) =>
        /\ last.res.status = 403
        /\ ~last.negotiated
        /\ ~last.dispatched

\* C6: a client disconnecting from one stream neither stops the heartbeats of
\* another open stream nor removes the transport's handle to it.
C6_StreamsArePrivate ==
    [][ \A d \in StreamIds : \A s \in StreamIds \ {d} :
            (streams[d].state = "open" /\ streams'[d].state = "gone" /\ streams[s].state = "open")
                => /\ streams'[s].timer = streams[s].timer
                   /\ responseStream = s => responseStream' = s ]_vars

\* the last exchange was a POST whose body, decoded once more when it is a
\* string, is a value other than a JSON object
NonObjectBody ==
    /\ last # NoExchange
    /\ last.req.httpMethod = "POST"
    /\ corsOrigin(last.req.origin)
    /\ parseBody(last.req.body).ok
    /\ parseBody(last.req.body).t # "object"

\* C11: a POST whose decoded body is not a JSON object (null, a number, a
\* boolean, a string or an array) is answered with status 400 and the
\* dispatcher is not invoked.
C11_NonObjectBodyIs400 ==
    NonObjectBody => (last.res.status = 400 /\ ~last.dispatched)

\* the last exchange was a POST during which JSON.parse threw
ParseThrew ==
    /\ last # NoExchange
    /\ last.req.httpMethod = "POST"
    /\ corsOrigin(last.req.origin)
    /\ ~parseBody(last.req.body).ok

\* the last exchange was a POST during which processRequest threw
ProcessRequestThrew == PostedMessage /\ Truthy(LastMessage.method) /\ ~hasMessageHandler

UnsupportedHttpMethod ==
    /\ last # NoExchange
    /\ corsOrigin(last.req.origin)
    /\ last.req.httpMethod \notin {"OPTIONS", "GET", "POST"}

\* C13: a string body that is not valid JSON is answered with status 400, an
\* HTTP method other than OPTIONS, GET and POST with status 405, and in both
\* cases the message handler is not invoked.
C13_TransportFailuresAre4xx ==
    /\ ParseThrew =>
          /\ last.res.status = 400
          /\ ~last.dispatched
          /\ last.returned = NoEnvelope
          /\ last.invoked = <<>>
    /\ UnsupportedHttpMethod =>
          /\ last.res.status = 405
          /\ ~last.dispatched
          /\ last.returned = NoEnvelope
          /\ last.invoked = <<>>

\* a DELETE from an accepted origin, answered with 405
C13_Witness ==
    /\ UnsupportedHttpMethod
    /\ last.req.httpMethod = "DELETE"
    /\ last.req.origin = << "http://localhost:", "3000" >>
    /\ last.res.status = 405
    /\ last.res.kind = "methodNotAllowed"

\* C14: an OPTIONS request, whatever its Origin, is answered with status 200,
\* no body and an Access-Control-Allow-Methods header that contains POST.
C14_PreflightIs200 ==
    (last # NoExchange /\ last.req.httpMethod = "OPTIONS") =>
        /\ last.res.status = 200
        /\ last.res.kind = "none"
        /\ Includes(last.res.allowMethods, "POST")

\* the stream opened most recently
NewestStream(s) ==
    /\ streams[s].state # "free"
    /\ \A r \in StreamIds : r > s => streams[r].state = "free"

\* C15: every SSE GET stream has status 200 and Content-Type
\* text/event-stream; its first frame is the connection event, which carries
\* the sessionId and protocolVersion the transport holds for that GET, and
\* no later frame of the stream is a connection event.
C15_ConnectionEventFirstAndOnce ==
    \A s \in StreamIds : streams[s].state # "free" =>
        /\ streams[s].head.status = 200
        /\ streams[s].head.ctype = "text/event-stream"
        /\ Len(streams[s].frames) >= 1
        /\ streams[s].frames[1].type = "connection"
        /\ Truthy(streams[s].frames[1].sessionId)
        /\ Truthy(streams[s].frames[1].protocolVersion)
        /\ \A i \in 2..Len(streams[s].frames) : streams[s].frames[i].type # "connection"
        /\ NewestStream(s) =>
              /\ streams[s].frames[1].sessionId = sessionId
              /\ streams[s].frames[1].protocolVersion = protocolVersion

\* a stream opened with a session header, then a heartbeat and a message
C15_Witness ==
    \E s \in StreamIds :
        /\ streams[s].state = "open"
        /\ Len(streams[s].frames) = 3
        /\ streams[s].frames[1] = Frame("connection", Str("hdr-session"), Str("2025-03-26"))
        /\ streams[s].frames[2].type = "heartbeat"
        /\ streams[s].frames[3].type = "message"

\* C16: heartbeats are written to a stream only after its connection event
\* and before its client disconnects; from the disconnect on the stream's
\* keepAlive timer is cancelled, the transport holds no handle to the stream,
\* and nothing is written to it, not even attempted.
C16_NothingAfterDisconnect ==
    [][ \A s \in StreamIds :
          /\ streams'[s].state = "gone" =>
                (~streams'[s].timer /\ responseStream' # s)
          /\ streams[s].state = "gone" => streams'[s] = streams[s]
          /\ \A i \in 1..Len(streams'[s].frames) :
                streams'[s].frames[i].type = "heartbeat" => i > 1 ]_vars

\* a client that left after a heartbeat, while a later stream goes on
C16_Witness ==
    \E s \in StreamIds : \E r \in StreamIds \ {s} :
        /\ streams[s].state = "gone"
        /\ ~streams[s].timer
        /\ Len(streams[s].frames) = 2
        /\ streams[s].frames[2].type = "heartbeat"
        /\ ~streams[s].late
        /\ streams[r].state = "open"
        /\ Len(streams[r].frames) >= 2

\* the last exchange answered a request with an id for the given method
Answered(method) ==
    /\ PostedMessage
    /\ LastMessage.method = Str(method)
    /\ LastMessage.id # Undef

\* C17: the tools array returned for tools/list has an entry for every tool
\* registered with the server (server.tool) and for every tool the
\* dispatcher can call.
C17_ListsEveryRegisteredTool ==
    Answered("tools/list") =>
        /\ CarriesEnvelope
        /\ HasResult(last.res.env)
        /\ last.res.env.result.of = "tools"
        /\ RegisteredTools \subseteq RangeOf(last.res.env.result.names)
        /\ DOMAIN ToolHandler \subseteq RangeOf(last.res.env.result.names)

\* a tools/list answered with its ten entries
C17_Witness ==
    /\ Answered("tools/list")
    /\ LastMessage.id = Str("a")
    /\ Len(last.res.env.result.names) = 10
    /\ "create-org" \in RangeOf(last.res.env.result.names)

\* a POSTed message whose method is present and is none of the protocol's
\* methods
UnknownMethod == PostedMessage /\ Truthy(LastMessage.method) /\ LastMessage.method \notin KnownMethods

\* C18: methods are matched exactly: a message whose method is not one of
\* the protocol's methods (a prefix, an extension or a case variant of one,
\* a bare tool name, a value that is not a string) gets an error envelope of
\* code -32601 and no handler function is called.
C18_OnlyExactMethodsAreServed ==
    UnknownMethod =>
        /\ last.dispatched
        /\ HasError(last.returned)
        /\ ~HasResult(last.returned)
        /\ last.returned.error.code = -32601
        /\ last.invoked = <<>>
        /\ LastMessage.id # Undef => (CarriesEnvelope /\ last.res.env = last.returned)

\* the case variant PING, sent with an id, answered with -32601
C18_Witness ==
    /\ UnknownMethod
    /\ LastMessage.method = Str("PING")
    /\ LastMessage.id = Num("0")
    /\ last.res.env.error.code = -32601
    /\ last.res.env.error.message = << "Method not found: ", "PING" >>

\* C19: whenever a list method (tools/list, resources/list, prompts/list) is
\* answered again, it returns the names it returned the first time, whatever
\* was requested in between and whether or not those requests succeeded.
C19_ListsNeverChange ==
    [][ \A kind \in {"tools", "resources", "prompts"} :
          ( /\ last' # NoExchange
            /\ last'.res.env.result.of = kind
            /\ listed[kind] # <<>> )
              => last'.res.env.result.names = listed[kind] ]_vars

\* tools/list answered once more after a tool call that succeeded and one
\* that failed
C19_Witness ==
    /\ Answered("tools/list")
    /\ listed.settled = {"value", "throw"}
    /\ listed.tools # <<>>
    /\ last.res.env.result.names = listed.tools

\* the step being taken completes a POST that is answered as an event stream
StreamedReply ==
    /\ last = NoExchange
    /\ last' # NoExchange
    /\ last'.req.httpMethod = "POST"
    /\ last'.res.ctype = "text/event-stream"

\* C21: a POST answered as an event stream gets exactly one event, an id
\* line equal to the request's id followed by one data line holding the
\* envelope the dispatcher returned, and the stream is then ended; answering
\* it neither makes it the transport's responseStream nor touches the
\* notification streams and their timers.
C21_SingleEventThenClosed ==
    [][ StreamedReply =>
          /\ last'.res.status = 200
          /\ last'.res.lines = << "id", "data" >>
          /\ last'.res.sseId = JsString(parseBody(last'.req.body).msg.id)
          /\ last'.res.env = last'.returned
          /\ last'.res.env # NoEnvelope
          /\ last'.res.ended
          /\ responseStream' = responseStream
          /\ streams' = streams ]_vars

\* a query-data request with a string id, answered as one event while a
\* notification stream is open
C21_Witness ==
    /\ PostedMessage
    /\ last.res.ctype = "text/event-stream"
    /\ LastMessage.method = Str("query-data")
    /\ LastMessage.id = Str("a")
    /\ last.res.sseId = "a"
    /\ last.res.ended
    /\ responseStream # 0
    /\ streams[responseStream].state = "open"

\* C22: whether the envelope answering a POST is streamed or buffered is a
\* function of the request's Accept header and method name alone: it is
\* streamed exactly when Accept contains text/event-stream and the method is
\* query-data or write-data, whatever the request's id and session header,
\* the transport's session fields, its open streams and the POSTs suspended
\* at the time.
C22_StreamingDependsOnAcceptAndMethod ==
    (PostedMessage /\ CarriesEnvelope) =>
        ( last.res.ctype = "text/event-stream"
            <=> /\ Includes(last.req.accept, "text/event-stream")
                /\ LastMessage.method \in { Str("query-data"), Str("write-data") } )

\* write-data with a null id and a session header, streamed while a
\* notification stream is open and another POST is suspended
C22_Witness ==
    /\ PostedMessage
    /\ LastMessage.method = Str("write-data")
    /\ LastMessage.id = Null
    /\ last.req.sessionHdr = Str("hdr-session")
    /\ last.res.kind = "sseEnvelope"
    /\ responseStream # 0
    /\ \E i \in Slots : pending[i] # NoPending

\* the handler function a message asks for, "" when it asks for none
HandlerAskedFor(m) ==
    IF m.method = Str("tools/call") /\ RequestedName(m).t = "string"
          /\ RequestedName(m).s \in DOMAIN ToolHandler
    THEN ToolHandler[RequestedName(m).s]
    ELSE IF m.method = Str("resources/read") /\ RequestedName(m).t = "string"
              /\ RequestedName(m).s \in DOMAIN ResourceHandler
    THEN ResourceHandler[RequestedName(m).s]
    ELSE IF m.method = Str("prompts/get") /\ RequestedName(m).t = "string"
              /\ RequestedName(m).s \in DOMAIN PromptHandler
    THEN PromptHandler[RequestedName(m).s]
    ELSE ""

\* C23: while a POST is served at most one handler function is called, the
\* one the message asks for, and it is called once; when it throws, the
\* request is answered with the error and the function is not called again.
C23_OneHandlerCallPerRequest ==
    PostedMessage =>
        /\ Len(last.invoked) <= 1
        /\ Len(last.invoked) = 1 => last.invoked[1] = HandlerAskedFor(LastMessage)
        /\ last.thrown # <<>> =>
              /\ Len(last.invoked) = 1
              /\ HasError(last.returned)
              /\ ~HasResult(last.returned)
              /\ last.returned.error.message = last.thrown
        /\ \A i \in Slots : pending[i] = NoPending

\* create-bucket threw and the request was answered with its error
C23_Witness ==
    /\ PostedMessage
    /\ LastMessage.method = Str("tools/call")
    /\ last.invoked = << "createBucket" >>
    /\ last.thrown = << "upstream unavailable" >>
    /\ HasError(last.res.env)

\* the step being taken writes the response to a POST
AnswersPost == last = NoExchange /\ last' # NoExchange /\ last'.req.httpMethod = "POST"

\* C24: every POST is answered exactly once.  The step that takes a POST in
\* either answers it or suspends it in the await of a handler function,
\* never both; a suspended POST can always resume, and the step in which it
\* resumes answers it and ends its suspension; every answer is a complete
\* response.
C24_EveryPostAnsweredOnce ==
    [][ /\ AnswersPost =>
              /\ last'.res.status # 0
              /\ last'.res.ended
              /\ \/ pending' = pending
                 \/ \E i \in Slots :
                        /\ pending[i] # NoPending
                        /\ pending[i].req = last'.req
                        /\ pending' = [pending EXCEPT ![i] = NoPending]
        /\ \A i \in Slots :
              /\ (pending[i] = NoPending /\ pending'[i] # NoPending) =>
                    /\ last' = NoExchange
                    /\ HandlerOutcomes(pending'[i].handler) # {}
              /\ (pending[i] # NoPending /\ pending'[i] # pending[i]) =>
                    /\ pending'[i] = NoPending
                    /\ last'.req = pending[i].req
                    /\ last'.res.status # 0 ]_vars

\* the server without a message handler has answered a tools/call with 500
C24_Witness ==
    /\ ~hasMessageHandler
    /\ PostedMessage
    /\ LastMessage.method = Str("tools/call")
    /\ last.res.status = 500
    /\ last.res.ended

\* the envelope belongs to the message: it has the message's id and carries
\* the outcome of the handler function the message asks for
OwnEnvelope(ex) ==
    LET m == parseBody(ex.req.body).msg
    IN  /\ ex.res.env = ex.returned
        /\ ex.res.env.id = m.id
        /\ ex.invoked # <<>> =>
              /\ ex.invoked = << HandlerAskedFor(m) >>
              /\ ex.thrown # <<>> => ex.res.env.error.message = ex.thrown
              /\ ex.thrown = <<>> =>
                    (HasResult(ex.res.env) /\ ex.res.env.result.of = HandlerAskedFor(m))

\* C25: with several POSTs suspended at once, a POST that resumes, whichever
\* resumes first, is answered with the envelope made for its own message,
\* the other suspended POSTs stay as they are, and the session fields that
\* later requests overwrote play no part.
C25_EachPostGetsItsOwnEnvelope ==
    [][ /\ \A i \in Slots :
              (pending[i] # NoPending /\ pending'[i] = NoPending) =>
                  /\ last'.req = pending[i].req
                  /\ last'.res.kind \in {"envelope", "sseEnvelope"}
                  /\ OwnEnvelope(last')
                  /\ \A j \in Slots \ {i} : pending'[j] = pending[j]
        /\ (last' # NoExchange /\ last'.res.kind \in {"envelope", "sseEnvelope"}) =>
              OwnEnvelope(last') ]_vars

\* the POST that arrived first is answered while the second, sent with
\* another session header, is still suspended
C25_Witness ==
    /\ PostedMessage
    /\ LastMessage.id = Num("0")
    /\ last.invoked = << "writeData" >>
    /\ last.res.env.id = Num("0")
    /\ sessionId = Str("hdr-session")
    /\ \E i \in Slots :
          /\ pending[i] # NoPending
          /\ pending[i].handler = "queryData"
          /\ pending[i].req.sessionHdr = Str("hdr-session")

\* the names the invocation method of a kind passes on to a handler function
Dispatched(kind) ==
    IF kind = "tools" THEN DOMAIN ToolHandler
    ELSE IF kind = "resources" THEN DOMAIN ResourceHandler
    ELSE DOMAIN PromptHandler

\* the last POST was an invocation that names a capability with a string
NamedInvocation ==
    /\ PostedMessage
    /\ LastMessage.method \in InvocationMethods
    /\ LastMessage.params.t = "object"
    /\ RequestedName(LastMessage).t = "string"

\* C26: what a list method returns is exactly what the invocation method of
\* its kind passes on to a handler function: an invocation calls a handler
\* function if and only if the name it carries is advertised, and each list
\* answer holds the names that are dispatched, no more and no fewer.
C26_ListedIsDispatched ==
    /\ \A kind \in {"tools", "resources", "prompts"} :
          (PostedMessage /\ CarriesEnvelope /\ last.res.env.result.of = kind) =>
              RangeOf(last.res.env.result.names) = Dispatched(kind)
    /\ NamedInvocation =>
          ( last.invoked # <<>> <=> RequestedName(LastMessage).s \in Advertised(LastMessage) )
    /\ (NamedInvocation /\ last.invoked = <<>>) =>
          /\ HasError(last.returned)
          /\ RequestedName(LastMessage).s \notin Advertised(LastMessage)

\* the second advertised prompt was fetched through its handler function
C26_Witness ==
    /\ NamedInvocation
    /\ LastMessage.method = Str("prompts/get")
    /\ LastMessage.params.name = Str("line-protocol-guide")
    /\ last.invoked = << "lineProtocolGuidePrompt" >>
    /\ HasResult(last.res.env)

\* C27: a resources/read with an id for a uri that resources/list advertises
\* is answered with a result and no error unless the upstream store failed.
C27_AdvertisedResourceIsReadable ==
    ( /\ Answered("resources/read")
      /\ NamedInvocation
      /\ LastMessage.params.uri.s \in RangeOf(ResourcesListed)
      /\ last.thrown # << "upstream unavailable" >> ) =>
        /\ CarriesEnvelope
        /\ HasResult(last.res.env)
        /\ ~HasError(last.res.env)

\* C28: once close() has ended a stream, no write to it is attempted, neither
\* by its keepAlive timer nor by send().
C28_NothingWrittenAfterClose ==
    \A s \in StreamIds : streams[s].ended => ~streams[s].late

\* the connection event of stream s: the first frame written to it
ConnectionEvent(s) == streams[s].frames[1]

\* C29: the sessionId and protocolVersion in a stream's connection event are
\* those of the GET request that opened it: its Mcp-Session-Id header, else
\* its session query parameter, else an id generated for it; its
\* MCP-Protocol-Version header, else its protocolVersion query parameter,
\* else the default version.  This holds whatever the POSTs in flight carry
\* and whatever the session fields of the transport have become since.
C29_ConnectionEventFromOwnRequest ==
    \A s \in StreamIds :
        streams[s].state # "free" =>
            LET req == streams[s].req
                event == ConnectionEvent(s)
            IN  /\ event.type = "connection"
                /\ Truthy(req.sessionHdr) => event.sessionId = req.sessionHdr
                /\ (~Truthy(req.sessionHdr) /\ Truthy(req.sessionQry)) =>
                      event.sessionId = req.sessionQry
                /\ (~Truthy(req.sessionHdr) /\ ~Truthy(req.sessionQry)) =>
                      event.sessionId \in GeneratedIds
                /\ Truthy(req.versionHdr) => event.protocolVersion = req.versionHdr
                /\ (~Truthy(req.versionHdr) /\ Truthy(req.versionQry)) =>
                      event.protocolVersion = req.versionQry
                /\ (~Truthy(req.versionHdr) /\ ~Truthy(req.versionQry)) =>
                      event.protocolVersion = DefaultProtocolVersion

\* a stream was opened with its own session and version while a POST sent
\* with another session header was suspended, and a later POST has since
\* overwritten the transport's session fields
C29_Witness ==
    /\ \E s \in StreamIds :
          /\ streams[s].state = "open"
          /\ streams[s].req.sessionQry = Str("qry-session")
          /\ ConnectionEvent(s).sessionId = Str("qry-session")
          /\ ConnectionEvent(s).protocolVersion = Str("2025-03-26")
    /\ \E i \in Slots :
          /\ pending[i] # NoPending
          /\ pending[i].req.sessionHdr = Str("hdr-session")
    /\ sessionId # Str("qry-session")

\* the exchange is a POST that reached `if (message.method)` with a method
CarriesMethod(ex) ==
    /\ ex # NoExchange
    /\ ex.req.httpMethod = "POST"
    /\ corsOrigin(ex.req.origin)
    /\ parseBody(ex.req.body).ok
    /\ ~invalidFormat(parseBody(ex.req.body).t)
    /\ Truthy(parseBody(ex.req.body).msg.method)

\* C30: on a transport whose messageHandler field is unset, every POST that
\* carries a method is answered with status 500 and the normalized error
\* body, whatever its method, id and Accept header; the answer holds no
\* envelope, the dispatcher is not run and no POST is left suspended.  The
\* transport keeps serving: once that answer is delivered the field is still
\* unset and nothing is in flight, and every request taken in is answered in
\* the same step, a POST without a method with the `received` document and a
\* GET with the info document.
C30_UnsetHandlerIs500 ==
    [][ /\ (~hasMessageHandler /\ CarriesMethod(last')) =>
              /\ last'.res.status = 500
              /\ last'.res.kind = "errorBody"
              /\ last'.res.ctype = "application/json"
              /\ last'.res.message = << "No message handler configured" >>
              /\ last'.res.env = NoEnvelope
              /\ last'.res.sseId = ""
              /\ last'.res.ended
              /\ last'.returned = NoEnvelope
              /\ ~last'.dispatched
              /\ pending' = pending
        /\ (~hasMessageHandler /\ CarriesMethod(last)) =>
              /\ last' = NoExchange
              /\ ~hasMessageHandler'
              /\ \A i \in Slots : pending'[i] = NoPending
        /\ (~hasMessageHandler /\ last = NoExchange /\ last' # NoExchange) =>
              /\ last'.res.status # 0
              /\ last'.res.ended
              /\ ( /\ last'.req.httpMethod = "POST"
                   /\ corsOrigin(last'.req.origin)
                   /\ parseBody(last'.req.body).ok
                   /\ ~invalidFormat(parseBody(last'.req.body).t)
                   /\ ~CarriesMethod(last') ) => last'.res = receivedAck
              /\ (last'.req.httpMethod = "GET" /\ corsOrigin(last'.req.origin)) =>
                    last'.res = serverInfo ]_vars

\* a write-data call sent with an id and Accept: text/event-stream was
\* answered with the 500 error body, not with an event
C30_Witness ==
    /\ ~hasMessageHandler
    /\ CarriesMethod(last)
    /\ LastMessage.method = Str("write-data")
    /\ LastMessage.id = Str("a")
    /\ Includes(last.req.accept, "text/event-stream")
    /\ last.res.status = 500
    /\ last.res.kind = "errorBody"
    /\ \A i \in Slots : pending[i] = NoPending

====
